---- MODULE Spec2Model ----
(***************************************************************************)
(* automate_blog_post.py: one run of the keyword -> POP report -> blog     *)
(* post workflow.  The script is one sequential thread; its state is the   *)
(* module-level variables, the spreadsheet, and the position in the file.  *)
(* Time is the number of seconds elapsed since start_time (line 73); it    *)
(* advances only in time.sleep: every request is taken to return at once, *)
(* with a body that is JSON with the keys of the report API or is not JSON *)
(* at all.                                                                 *)
(***************************************************************************)
EXTENDS Integers, Sequences, FiniteSets, TLC

VARIABLES
    pc,                  \* position in the script
    session,             \* the poll session: "Idle", "Running", "Succeeded", "Failed", "TimedOut"
    reason,              \* which exit() or uncaught exception ended the run ("" while it runs)
    rows,                \* sheet.get_all_records(): the data rows, in order
    cells,               \* cells written by sheet.update: sheet row -> [C, D, E]
    keyword,             \* line 38/42
    row_number,          \* line 38/42
    pop_response,        \* line 61: the submission acknowledgement (None before the POST)
    task_id,             \* line 72
    clock,               \* seconds since start_time (line 73)
    task_complete,       \* line 81
    previous_status,     \* line 82
    unknown_count,       \* line 83
    last_valid_progress, \* line 85
    task_response,       \* line 94: the last main-loop status response
    final_response,      \* line 125: the final-check status response
    pop_score,           \* lines 130/157
    optimized_content,   \* lines 131/158
    blog_content,        \* line 175
    doc_id,              \* line 182
    slept,               \* seconds the last loop iteration passed in time.sleep (0: none)
    logged,              \* did the last main-loop iteration log "Task Status: ..." (line 151)
    nSubmit,             \* requests.post calls (line 61)
    nFetch,              \* requests.get calls (lines 94 and 125), counted up to MaxCount
    nLLM,                \* openai.ChatCompletion.create calls (line 167)
    nDocCreate,          \* documents().create calls (line 181)
    nDocInsert,          \* documents().batchUpdate calls (line 183)
    nSheetWrite,         \* sheet.update calls (lines 189-191)
    mono,                \* history: every status response so far parsed and progress never went down
    maxSeen,             \* history: the largest progress any main-loop response carried (0 if none)
    unkRun,              \* history: how many "Unknown"/0% main-loop responses came last, in a row
    scen                 \* history: how many responses so far, all of them, follow Scenario (Off: not all)

vars == << pc, session, reason, rows, cells, keyword, row_number, pop_response, task_id,
           clock, task_complete, previous_status, unknown_count, last_valid_progress,
           task_response, final_response, pop_score, optimized_content, blog_content,
           doc_id, slept, logged, nSubmit, nFetch, nLLM, nDocCreate, nDocInsert,
           nSheetWrite, mono, maxSeen, unkRun, scen >>

----------------------------------------------------------------------------
(* Program constants *)

timeout_seconds == 1200      \* timeout_minutes = 20, timedelta(minutes=20)
max_unknown_retries == 8
HighProgress == 50           \* last_valid_progress >= 50
FullProgress == 100          \* progress == 100
SleepExtended == 60
SleepUnknown == 30
SleepProgress == 20
FirstSheetRow == 2           \* enumerate(rows, start=2)

(* Bounds of the model *)

MaxCount == 10               \* the fetch counter counts up to MaxCount and stays there
ReportScore == 85            \* the pageScore a finished report carries

----------------------------------------------------------------------------
(* Values *)

None == "None"               \* Python None
Absent == "<absent>"         \* a key missing from a JSON object (string-valued keys)
AbsentNum == -1              \* a key missing from a JSON object (number-valued keys)
NA == -2                     \* the default "N/A" of .get("pageScore", "N/A")

\* A response body that response.json() rejects (JSONDecodeError).
NoJson == [json |-> FALSE, status |-> Absent, msg |-> Absent, value |-> AbsentNum,
           pageScore |-> AbsentNum, content |-> Absent]

\* One status response of GET task/{id}/results, as the JSON object it parses to.
Status(st, m, v) == [json |-> TRUE, status |-> st, msg |-> m, value |-> v,
                     pageScore |-> AbsentNum, content |-> Absent]

\* A response that carries the finished report.
Report(st, m, v) == [json |-> TRUE, status |-> st, msg |-> m, value |-> v,
                     pageScore |-> ReportScore, content |-> "brief"]

\* The status responses the service may give to any fetch.
StatusResponses ==
    {NoJson}
    \cup { Status("PENDING", m, v) : m \in {"Unknown", "Processing"}, v \in {0, 10, 45, 50, 80} }
    \cup { Status("PENDING", "Processing", FullProgress),
           Status("SUCCESS", "Processing", 45),
           Status("SUCCESS", Absent, AbsentNum),
           Status(Absent, Absent, AbsentNum),
           Status("SUCCESS", "Processing", FullProgress),
           Report("SUCCESS", "SUCCESS", FullProgress) }

\* The end-to-end run of responses of the specification's section 8.
Scenario ==
    << Status("PENDING", "Processing", 10), Status("PENDING", "Processing", 45),
       Status("PENDING", "Unknown", 0), Status("PENDING", "Unknown", 0),
       Status("PENDING", "Unknown", 0), Status("PENDING", "Processing", 80),
       Report("SUCCESS", "SUCCESS", FullProgress) >>

Off == Len(Scenario) + 1

\* scen after one more response r
Follow(n, r) == IF n # Off /\ n < Len(Scenario) /\ r = Scenario[n + 1] THEN n + 1 ELSE Off

\* dict.get(key, default)
GetMsg(d) == IF d.msg = Absent THEN "Unknown" ELSE d.msg
GetValue(d) == IF d.value = AbsentNum THEN 0 ELSE d.value
GetPageScore(d) == IF d.pageScore = AbsentNum THEN NA ELSE d.pageScore
GetContent(d) == IF d.content = Absent THEN "" ELSE d.content

----------------------------------------------------------------------------
(* Keyword selection (lines 36-47) *)

\* str.lower() on the status strings a sheet holds here
Lower(s) ==
    CASE s = "Pending" -> "pending"
      [] s = "PENDING" -> "pending"
      [] s = "Done" -> "done"
      [] OTHER -> s

\* line 41: not row["Status"] or row["Status"].lower() == "pending"
IsPendingRow(row) == row.Status = "" \/ Lower(row.Status) = "pending"

\* lines 40-43: position (1-based) of the first pending row, 0 if the loop never breaks
FirstPending(rs) ==
    IF \E i \in 1..Len(rs) : IsPendingRow(rs[i])
    THEN CHOOSE i \in 1..Len(rs) :
             IsPendingRow(rs[i]) /\ \A j \in 1..(i - 1) : ~IsPendingRow(rs[j])
    ELSE 0

\* enumerate(rows, start=2)
SheetRow(i) == i + FirstSheetRow - 1

\* line 45: not keyword (None or the empty string)
Falsy(k) == k = None \/ k = ""

Row(st, kw) == [Status |-> st, Keyword |-> kw]

\* The sheets a run starts from.
InitSheets ==
    { << Row("Done", "serum") >>,
      << Row("Done", "serum"), Row("Pending", "retinol"), Row("", "niacinamide") >>,
      << Row("", ""), Row("pending", "retinol") >> }

BlankCells == [C |-> "", D |-> "", E |-> NA]

----------------------------------------------------------------------------
(* Task submission (lines 51-73) *)

\* Acknowledgements of POST get-terms: unparseable, rejected, accepted.
SubmitResponses ==
    { [json |-> FALSE, status |-> Absent, taskId |-> Absent],
      [json |-> TRUE, status |-> "FAILURE", taskId |-> Absent],
      [json |-> TRUE, status |-> Absent, taskId |-> "t1"],
      [json |-> TRUE, status |-> "SUCCESS", taskId |-> "t1"] }

\* only an explicit failure status is refused
SubmitAccepted_NotFailure(d) == d.status # "FAILURE"

\* line 65 negated: pop_data.get("status") == "SUCCESS"
SubmitAccepted(d) == d.status = "SUCCESS"

----------------------------------------------------------------------------
(* Poll loop helpers (lines 87-161) *)

\* the deadline check allows one more minute
DeadlinePassed_Late(now) == now > timeout_seconds + 60

\* the deadline check fires one sleep too early (>= for >)
DeadlinePassed_AtDeadline(now) == now >= timeout_seconds

\* line 89: datetime.now(timezone.utc) > timeout_time
DeadlinePassed(now) == now > timeout_seconds

\* a sleep that returns at once
Sleep_NoWait(now, secs) == now

\* time.sleep(secs): the clock after the sleep
Sleep(now, secs) == now + secs

\* the last progress replaces the highest
HigherProgress_Last(lvp, progress) == progress

\* lines 109-110
HigherProgress(lvp, progress) == IF progress > lvp THEN progress ELSE lvp

\* line 113
IsUnknown(status, progress) == status = "Unknown" /\ progress = 0

\* high progress extends the wait however many Unknowns have come
ExtendWait_NoLimit(lvp, uc) == lvp >= HighProgress

\* the comparison with 50 inverted
ExtendWait_Low(lvp, uc) == lvp < HighProgress /\ uc < max_unknown_retries

\* line 117
ExtendWait(lvp, uc) == lvp >= HighProgress /\ uc < max_unknown_retries

\* one Unknown too many is allowed (> for >=)
RetriesExhausted_OffByOne(uc) == uc > max_unknown_retries

\* line 123
RetriesExhausted(uc) == uc >= max_unknown_retries

\* the counter is never reset
ResetCount_Keep(uc) == uc

\* line 147
ResetCount(uc) == 0

\* the success flag alone ends the session
TaskComplete_FlagOnly(d, progress) == d.status = "SUCCESS"

\* line 155
TaskComplete(d, progress) == d.status = "SUCCESS" /\ progress = FullProgress

\* the final check takes the success flag alone
FinalComplete_FlagOnly(d) == d.status = "SUCCESS"

\* line 128
FinalComplete(d) == d.status = "SUCCESS" /\ GetValue(d) = FullProgress

----------------------------------------------------------------------------
(* The run *)

Init ==
    /\ pc = "select"
    /\ session = "Idle"
    /\ reason = ""
    /\ rows \in InitSheets
    /\ cells = [n \in { SheetRow(i) : i \in 1..Len(rows) } |-> BlankCells]
    /\ keyword = None
    /\ row_number = 0
    /\ pop_response = None
    /\ task_id = None
    /\ clock = 0
    /\ task_complete = FALSE
    /\ previous_status = None
    /\ unknown_count = 0
    /\ last_valid_progress = 0
    /\ task_response = NoJson
    /\ final_response = NoJson
    /\ pop_score = NA
    /\ optimized_content = ""
    /\ blog_content = ""
    /\ doc_id = None
    /\ slept = 0
    /\ logged = FALSE
    /\ nSubmit = 0
    /\ nFetch = 0
    /\ nLLM = 0
    /\ nDocCreate = 0
    /\ nDocInsert = 0
    /\ nSheetWrite = 0
    /\ mono = TRUE
    /\ maxSeen = 0
    /\ unkRun = 0
    /\ scen = 0

\* one more call on a counter that stops at MaxCount
Count(n) == IF n < MaxCount THEN n + 1 ELSE n

sheetVars == << rows, cells >>
selectVars == << keyword, row_number >>
submitVars == << pop_response, task_id, nSubmit >>
loopVars == << clock, task_complete, previous_status, unknown_count, last_valid_progress,
               task_response, final_response, slept, logged, nFetch, mono, maxSeen,
               unkRun, scen >>
reportVars == << pop_score, optimized_content >>
publishVars == << blog_content, doc_id, nLLM, nDocCreate, nDocInsert, nSheetWrite >>

\* an exit() that is missing: the script runs on into the code after the loop
Exit_FallThrough(why) == pc' = "generate" /\ reason' = why

\* exit(): the script stops where it stands
Exit(why) == pc' = "exit" /\ reason' = why

\* an exception nobody catches: the script stops with a traceback
Crash(why) == pc' = "crash" /\ reason' = why

\* lines 36-49
SelectKeyword ==
    /\ pc = "select"
    /\ LET i == FirstPending(rows) IN
         /\ keyword' = IF i = 0 THEN None ELSE rows[i].Keyword
         /\ row_number' = IF i = 0 THEN 0 ELSE SheetRow(i)
         /\ IF Falsy(keyword')
            THEN Exit("no-keyword")
            ELSE pc' = "submit" /\ reason' = reason
    /\ UNCHANGED << session, sheetVars, submitVars, loopVars, reportVars, publishVars >>

\* lines 60-85: one POST, then the poll variables are set up
SubmitTask ==
    /\ pc = "submit"
    /\ \E ack \in SubmitResponses :
         /\ nSubmit' = nSubmit + 1
         /\ pop_response' = ack
         /\ IF ~ack.json
            THEN /\ Exit("invalid-submit-response")
                 /\ UNCHANGED << task_id, session >>
            ELSE /\ IF SubmitAccepted(ack)
                    THEN /\ task_id' = ack.taskId
                         /\ pc' = "poll"
                         /\ session' = "Running"
                         /\ reason' = reason
                    ELSE /\ Exit("api-rejected")
                         /\ UNCHANGED << task_id, session >>
    /\ UNCHANGED << sheetVars, selectVars, loopVars, reportVars, publishVars >>

\* lines 89-91: the deadline check that opens every iteration
PollTimeout ==
    /\ pc = "poll"
    /\ DeadlinePassed(clock)
    /\ Exit("timeout")
    /\ session' = "TimedOut"
    /\ UNCHANGED << sheetVars, selectVars, submitVars, loopVars, reportVars, publishVars >>

\* a body that is not JSON is skipped and the loop polls again after 20 s
PollInvalid_Retry(r) ==
    /\ ~r.json
    /\ clock' = Sleep(clock, SleepProgress)
    /\ slept' = SleepProgress
    /\ pc' = "poll"
    /\ UNCHANGED << session, reason, task_complete, previous_status, unknown_count,
                    last_valid_progress, final_response, logged, reportVars >>

\* lines 94-99: the fetch of an iteration returns a body that is not JSON
PollInvalid(r) ==
    /\ ~r.json
    /\ Exit("invalid-response")
    /\ session' = "Failed"
    /\ UNCHANGED << clock, task_complete, previous_status, unknown_count,
                    last_valid_progress, final_response, slept, logged, reportVars >>

\* lines 113-144: "Unknown" with progress 0
PollUnknown(r) ==
    LET current_status == GetMsg(r)
        progress == GetValue(r)
        lvp == HigherProgress(last_valid_progress, progress)
        uc == unknown_count + 1
    IN  /\ r.json
        /\ IsUnknown(current_status, progress)
        /\ last_valid_progress' = lvp
        /\ unknown_count' = uc
        /\ logged' = FALSE
        /\ IF ExtendWait(lvp, uc)
           THEN /\ clock' = Sleep(clock, SleepExtended)
                /\ slept' = SleepExtended
                /\ pc' = "poll"
           ELSE IF RetriesExhausted(uc)
           THEN /\ pc' = "final_check"
                /\ slept' = 0
                /\ clock' = clock
           ELSE /\ clock' = Sleep(clock, SleepUnknown)
                /\ slept' = SleepUnknown
                /\ pc' = "poll"
        /\ UNCHANGED << session, reason, task_complete, previous_status, final_response,
                        reportVars >>

\* lines 146-161: any other status report
PollProgress(r) ==
    LET current_status == GetMsg(r)
        progress == GetValue(r)
        lvp == HigherProgress(last_valid_progress, progress)
    IN  /\ r.json
        /\ ~IsUnknown(current_status, progress)
        /\ last_valid_progress' = lvp
        /\ unknown_count' = ResetCount(unknown_count)
        /\ logged' = (current_status # previous_status)
        /\ previous_status' = current_status
        /\ IF TaskComplete(r, progress)
           THEN /\ task_complete' = TRUE
                /\ pop_score' = GetPageScore(r)
                /\ optimized_content' = GetContent(r)
                /\ session' = "Succeeded"
                /\ pc' = "generate"
                /\ slept' = 0
                /\ clock' = clock
           ELSE /\ clock' = Sleep(clock, SleepProgress)
                /\ slept' = SleepProgress
                /\ pc' = "poll"
                /\ UNCHANGED << task_complete, session, reportVars >>
        /\ UNCHANGED << reason, final_response >>

\* lines 87-161: one iteration of the while loop that passes the deadline check
PollIteration ==
    /\ pc = "poll"
    /\ ~DeadlinePassed(clock)
    /\ \E r \in StatusResponses :
         /\ task_response' = r
         /\ nFetch' = Count(nFetch)
         /\ mono' = (mono /\ r.json /\ (nFetch = 0 \/ GetValue(r) >= GetValue(task_response)))
         /\ maxSeen' = IF r.json /\ GetValue(r) > maxSeen THEN GetValue(r) ELSE maxSeen
         /\ unkRun' = IF ~r.json THEN unkRun
                      ELSE IF GetMsg(r) = "Unknown" /\ GetValue(r) = 0 THEN unkRun + 1 ELSE 0
         /\ scen' = Follow(scen, r)
         /\ \/ PollInvalid(r)
            \/ PollUnknown(r)
            \/ PollProgress(r)
    /\ UNCHANGED << sheetVars, selectVars, submitVars, publishVars >>

\* lines 124-140: the one last fetch after max_unknown_retries Unknowns
FinalCheck ==
    /\ pc = "final_check"
    /\ \E r \in StatusResponses :
         /\ final_response' = r
         /\ nFetch' = Count(nFetch)
         /\ mono' = (mono /\ r.json /\ GetValue(r) >= GetValue(task_response))
         /\ scen' = Follow(scen, r)
         /\ IF ~r.json
            THEN /\ Exit("invalid-response-on-final-check")
                 /\ session' = "Failed"
                 /\ UNCHANGED << task_complete, reportVars >>
            ELSE IF FinalComplete(r)
            THEN /\ task_complete' = TRUE
                 /\ pop_score' = GetPageScore(r)
                 /\ optimized_content' = GetContent(r)
                 /\ session' = "Succeeded"
                 /\ pc' = "generate"
                 /\ reason' = reason
            ELSE /\ Exit("stuck-unknown")
                 /\ session' = "Failed"
                 /\ UNCHANGED << task_complete, reportVars >>
    /\ UNCHANGED << sheetVars, selectVars, submitVars, publishVars, clock, previous_status,
                    unknown_count, last_valid_progress, task_response, slept, logged,
                    maxSeen, unkRun >>

\* lines 164-176: one chat completion; an API error is not caught
GenerateContent ==
    /\ pc = "generate"
    /\ nLLM' = nLLM + 1
    /\ \/ blog_content' = "post" /\ pc' = "doc_create" /\ reason' = reason
       \/ Crash("llm-failure") /\ blog_content' = blog_content
    /\ UNCHANGED << session, sheetVars, selectVars, submitVars, loopVars, reportVars,
                    doc_id, nDocCreate, nDocInsert, nSheetWrite >>

\* lines 180-182: documents().create
CreateDocument ==
    /\ pc = "doc_create"
    /\ nDocCreate' = nDocCreate + 1
    /\ \/ doc_id' = "doc1" /\ pc' = "doc_insert" /\ reason' = reason
       \/ Crash("doc-create-failure") /\ doc_id' = doc_id
    /\ UNCHANGED << session, sheetVars, selectVars, submitVars, loopVars, reportVars,
                    blog_content, nLLM, nDocInsert, nSheetWrite >>

\* a failed batchUpdate is swallowed and the script goes on to the sheet
InsertText_IgnoreFailure ==
    /\ pc = "doc_insert"
    /\ nDocInsert' = nDocInsert + 1
    /\ pc' = "update_C"
    /\ \/ reason' = reason
       \/ reason' = "doc-insert-failure"
    /\ UNCHANGED << session, sheetVars, selectVars, submitVars, loopVars, reportVars,
                    blog_content, doc_id, nLLM, nDocCreate, nSheetWrite >>

\* line 183: documents().batchUpdate inserting the text
InsertText ==
    /\ pc = "doc_insert"
    /\ nDocInsert' = nDocInsert + 1
    /\ \/ pc' = "update_C" /\ reason' = reason
       \/ Crash("doc-insert-failure")
    /\ UNCHANGED << session, sheetVars, selectVars, submitVars, loopVars, reportVars,
                    blog_content, doc_id, nLLM, nDocCreate, nSheetWrite >>

\* line 185
DocUrl(id) == "https://docs.google.com/document/d/" \o id

\* one sheet.update(f"{col}{row_number}", value); a failed call writes nothing
UpdateCell(at, col, value, next) ==
    /\ pc = at
    /\ nSheetWrite' = nSheetWrite + 1
    /\ \/ /\ cells' = [cells EXCEPT ![row_number] = [@ EXCEPT ![col] = value]]
          /\ pc' = next
          /\ reason' = reason
       \/ /\ Crash("sheet-update-failure")
          /\ cells' = cells
    /\ UNCHANGED << session, rows, selectVars, submitVars, loopVars, reportVars,
                    blog_content, doc_id, nLLM, nDocCreate, nDocInsert >>

\* line 189
UpdateStatus == UpdateCell("update_C", "C", "Ready for review", "update_D")

\* line 190
UpdateUrl == UpdateCell("update_D", "D", DocUrl(doc_id), "update_E")

\* line 191, after which the script runs off its end
UpdateScore == UpdateCell("update_E", "E", pop_score, "end")

Next ==
    \/ SelectKeyword
    \/ SubmitTask
    \/ PollTimeout
    \/ PollIteration
    \/ FinalCheck
    \/ GenerateContent
    \/ CreateDocument
    \/ InsertText
    \/ UpdateStatus
    \/ UpdateUrl
    \/ UpdateScore

Spec == Init /\ [][Next]_vars

\* The script is one thread that runs whenever it can take a step.
FairSpec == Spec /\ WF_vars(Next)

Terminated == pc \in {"exit", "crash", "end"}

----------------------------------------------------------------------------
(* Properties *)

\* a response that carries the success flag and progress 100
Qualifies(r) == r.json /\ r.status = "SUCCESS" /\ r.value = 100

\* a response with only one of the two: the flag below 100%, or 100% without the flag
Partial(r) ==
    /\ r.json
    /\ \/ r.status = "SUCCESS" /\ r.value # 100
       \/ r.status # "SUCCESS" /\ r.value = 100

\* an "Unknown"/0% response, the defaults of missing keys applied
UnknownZero(r) ==
    /\ r.json
    /\ r.msg \in {"Unknown", Absent}
    /\ r.value \in {0, AbsentNum}

\* a step of the main loop that fetches: the iteration started before the deadline had passed
MainFetch == pc = "poll" /\ clock <= 1200

\* C1 as claimed: the session becomes Succeeded only on a response with the success flag
\* and progress 100 together; a response with only one of the two is, in the main loop,
\* ordinary progress (wait 20, poll again), and fails the session in the final check.
C1_AsClaimed ==
    [][ /\ (session # "Succeeded" /\ session' = "Succeeded")
            => Qualifies(IF pc = "final_check" THEN final_response' ELSE task_response')
        /\ (MainFetch /\ Partial(task_response'))
            => (session' = "Running" /\ pc' = "poll" /\ slept' = 20 /\ clock' = clock + 20)
        /\ (pc = "final_check" /\ Partial(final_response'))
            => session' = "Failed" ]_vars

\* C1 amended: the session becomes Succeeded only on a response with the success flag and
\* progress 100 together; a response with only one of the two never ends the session as
\* Succeeded: in the main loop it is ordinary progress (wait 20, poll again) unless it is
\* "Unknown"/0%, which is counted and handled as an Unknown (wait 30 or 60, or final check).
C1_SucceededOnlyOnFlagAnd100 ==
    [][ /\ (session # "Succeeded" /\ session' = "Succeeded")
            => Qualifies(IF pc = "final_check" THEN final_response' ELSE task_response')
        /\ (MainFetch /\ Partial(task_response'))
            => /\ session' = "Running"
               /\ IF UnknownZero(task_response')
                  THEN /\ unknown_count' = unknown_count + 1
                       /\ \/ pc' = "final_check" /\ clock' = clock
                          \/ pc' = "poll" /\ slept' \in {30, 60} /\ clock' = clock + slept'
                  ELSE pc' = "poll" /\ slept' = 20 /\ clock' = clock + 20
        /\ (pc = "final_check" /\ Partial(final_response'))
            => session' = "Failed" ]_vars

\* C1 witness: a response with the success flag but no progress was taken as an Unknown.
C1_Witness ==
    /\ session = "Running"
    /\ pc = "poll"
    /\ task_response = Status("SUCCESS", Absent, AbsentNum)
    /\ unknown_count = 1
    /\ slept = 30

\* C2: once the poll session runs it ends: Succeeded, Failed or TimedOut.
C2_PollSessionEnds == (session = "Running") ~> (session \in {"Succeeded", "Failed", "TimedOut"})

\* C2 witness: a session that polled until the deadline had passed.
C2_Witness == session = "TimedOut" /\ clock > 1200 /\ nFetch = MaxCount

\* the last response fetched qualified
SuccessConsumed == Qualifies(task_response) \/ Qualifies(final_response)

\* C3 as claimed: while the responses fetched so far all parsed and their progress never
\* went down (so that a success at 100% may still follow), the session is neither TimedOut
\* nor Failed.
C3_AsClaimed == mono => session \notin {"TimedOut", "Failed"}

\* C3 amended: with responses that all parse and whose progress never goes down, the session
\* is Succeeded as soon as the success response at 100% is fetched; before that it ends
\* TimedOut only when an iteration starts after the deadline, and Failed only when 8
\* "Unknown"/0% responses in a row are followed by a final response that does not qualify.
C3_SucceedsUnlessDeadlineOrStuck ==
    mono =>
        /\ SuccessConsumed => session = "Succeeded"
        /\ session = "TimedOut" => clock > 1200
        /\ session = "Failed" =>
               /\ reason = "stuck-unknown"
               /\ unkRun = 8
               /\ ~Qualifies(final_response)

\* C3 witness: progress that never went down, the success fetched right at the deadline.
C3_Witness == mono /\ session = "Succeeded" /\ clock = 1200 /\ last_valid_progress = 100

\* every main-loop response so far was "Unknown"/0%, and there was one
AllUnknown ==
    /\ session # "Idle"
    /\ nFetch > 0
    /\ previous_status = None
    /\ reason # "invalid-response"

\* C4: in a session of "Unknown"/0% responses only, the loop waits 30 after each of the
\* first 7, goes from the 8th straight to the final check, and a final "Unknown" ends the
\* session Failed(stuck-unknown) after 9 fetches in all; it never ends TimedOut.
C4_EightUnknownsThenFinalCheck ==
    AllUnknown =>
        /\ session # "TimedOut"
        /\ last_valid_progress = 0
        /\ pc = "poll" =>
               /\ unknown_count \in 1..7
               /\ nFetch = unknown_count
               /\ clock = 30 * unknown_count
               /\ slept = 30
        /\ pc = "final_check" =>
               /\ unknown_count = 8
               /\ nFetch = 8
               /\ clock = 30 * 7
               /\ slept = 0
        /\ pc \notin {"poll", "final_check"} =>
               /\ unknown_count = 8
               /\ nFetch = 9
               /\ clock = 30 * 7
        /\ UnknownZero(final_response) =>
               /\ pc = "exit"
               /\ session = "Failed"
               /\ reason = "stuck-unknown"

\* C4 witness: eight Unknowns and an Unknown in the final check.
C4_Witness ==
    /\ AllUnknown
    /\ UnknownZero(final_response)
    /\ reason = "stuck-unknown"
    /\ nFetch = 9

\* C5: an iteration that starts after the deadline ends the session TimedOut and fetches
\* nothing, whatever the progress, the unknown counter and the sleep before it were.
C5_TimeoutBeforeFetch ==
    [][ (pc = "poll" /\ clock > 1200)
        => /\ pc' = "exit"
           /\ session' = "TimedOut"
           /\ reason' = "timeout"
           /\ nFetch' = nFetch
           /\ task_response' = task_response
           /\ clock' = clock ]_vars

\* C5 witness: timed out with high progress, in a run of Unknowns, after a sleep of 60.
C5_Witness ==
    /\ session = "TimedOut"
    /\ last_valid_progress = 80
    /\ unknown_count = 7
    /\ slept = 60

\* C6: a main-loop response that does not parse ends the session Failed(invalid-response)
\* at once: no sleep, no further step of the script, and no LLM, document or sheet call.
C6_InvalidResponseIsFatal ==
    /\ [][ (MainFetch /\ ~task_response'.json)
            => /\ pc' = "exit"
               /\ session' = "Failed"
               /\ reason' = "invalid-response"
               /\ clock' = clock
               /\ slept' = slept ]_vars
    /\ [][pc # "exit"]_vars
    /\ [](reason = "invalid-response"
            => /\ pc = "exit"
               /\ nLLM = 0 /\ nDocCreate = 0 /\ nDocInsert = 0 /\ nSheetWrite = 0)

\* C6 witness: the bad response came at high progress, in a run of Unknowns.
C6_Witness ==
    /\ reason = "invalid-response"
    /\ last_valid_progress = 80
    /\ unknown_count = 3

\* C7: an "Unknown"/0% response adds one to the unknown counter whatever the progress; if
\* the counter is then below 8 the loop sleeps 60 when the highest progress is at least 50
\* and 30 when it is below 50, and polls again.
C7_UnknownCountsAndWaits ==
    [][ (MainFetch /\ UnknownZero(task_response'))
        => /\ unknown_count' = unknown_count + 1
           /\ unknown_count' < 8
               => /\ pc' = "poll"
                  /\ slept' = (IF last_valid_progress >= 50 THEN 60 ELSE 30)
                  /\ clock' = clock + slept' ]_vars

\* C7 witness: the seventh Unknown in a row at progress 50 was followed by a sleep of 60.
C7_Witness ==
    /\ pc = "poll"
    /\ UnknownZero(task_response)
    /\ last_valid_progress = 50
    /\ unknown_count = 7
    /\ slept = 60

\* C8: the unknown counter is the length of the run of "Unknown"/0% responses that ends at
\* the last main-loop response: any other response that parses resets it to 0.  So the
\* session fails as stuck only after 8 in a row, a success at 100% that is fetched ends it
\* Succeeded, and the run of responses Scenario ends Succeeded with the report's score,
\* the counter back at 0 after the 80% observation.
C8_CounterCountsConsecutive ==
    /\ [][ (MainFetch /\ task_response'.json /\ ~UnknownZero(task_response'))
            => unknown_count' = 0 ]_vars
    /\ [](unknown_count = unkRun)
    /\ [](reason = "stuck-unknown" => unkRun = 8)
    /\ [](SuccessConsumed => session = "Succeeded")
    /\ [](scen = 6 => unknown_count = 0 /\ session = "Running" /\ last_valid_progress = 80)
    /\ [](scen = 7 => unknown_count = 0 /\ session = "Succeeded" /\ pop_score = ReportScore)

\* C8 witness: Scenario was served to its end.
C8_Witness == scen = 7 /\ session = "Succeeded" /\ pop_score = ReportScore /\ clock = 150

\* C9: last_valid_progress never goes down: it is the largest progress the main loop has
\* seen (0 at least), and an "Unknown"/0% response leaves it as it is.
C9_ProgressNeverDecreases ==
    /\ [](last_valid_progress = maxSeen)
    /\ [][last_valid_progress' >= last_valid_progress]_vars
    /\ [][ (MainFetch /\ UnknownZero(task_response'))
            => last_valid_progress' = last_valid_progress ]_vars

\* C9 witness: an observation of 10% after 80% had been seen.
C9_Witness ==
    /\ pc = "poll"
    /\ task_response.json
    /\ task_response.value = 10
    /\ last_valid_progress = 80

\* the POST was made and its acknowledgement does not parse or does not report SUCCESS
BadAck == nSubmit > 0 /\ ~(pop_response.json /\ pop_response.status = "SUCCESS")

\* C10: after an acknowledgement that does not parse or does not report SUCCESS the run has
\* stopped, failed as rejected or invalid, with one submit request and no status fetch, LLM
\* call, document call or sheet write; the submit is never made twice.
C10_RejectedSubmitStopsRun ==
    /\ nSubmit <= 1
    /\ BadAck =>
           /\ pc = "exit"
           /\ reason = (IF pop_response.json THEN "api-rejected" ELSE "invalid-submit-response")
           /\ session = "Idle"
           /\ nSubmit = 1
           /\ nFetch = 0
           /\ nLLM = 0 /\ nDocCreate = 0 /\ nDocInsert = 0 /\ nSheetWrite = 0
           /\ \A n \in DOMAIN cells : cells[n] = BlankCells

\* C10 witness: an acknowledgement that parses but carries no status was refused.
C10_Witness ==
    /\ BadAck
    /\ pop_response.json
    /\ pop_response.status = Absent
    /\ reason = "api-rejected"

\* the place of a position of the script in the order of its stages
Rank(p) ==
    CASE p = "select" -> 0
      [] p = "submit" -> 1
      [] p = "poll" -> 2
      [] p = "final_check" -> 3
      [] p = "generate" -> 4
      [] p = "doc_create" -> 5
      [] p = "doc_insert" -> 6
      [] p = "update_C" -> 7
      [] p = "update_D" -> 8
      [] p = "update_E" -> 9
      [] OTHER -> 10

\* C11: the stages come in the order select, submit, poll, LLM, document create, text
\* insert, row update; every step moves forward (only the poll loop repeats), submit, LLM
\* call, document create, insert and each cell write happen at most once, and a stage is
\* entered only after the one before it succeeded: the LLM only after Succeeded.
C11_StagesInOrder ==
    /\ [][Rank(pc') > Rank(pc) \/ (pc = "poll" /\ pc' = "poll")]_vars
    /\ [](nSubmit <= 1 /\ nLLM <= 1 /\ nDocCreate <= 1 /\ nDocInsert <= 1 /\ nSheetWrite <= 3)
    /\ [](nSubmit > 0 => keyword \notin {None, ""} /\ row_number >= 2)
    /\ [](nFetch > 0 => nSubmit = 1 /\ pop_response.json /\ pop_response.status = "SUCCESS")
    /\ [](nLLM > 0 => nFetch > 0 /\ session = "Succeeded")
    /\ [](nDocCreate > 0 => nLLM = 1 /\ blog_content = "post")
    /\ [](nDocInsert > 0 => nDocCreate = 1 /\ doc_id = "doc1")
    /\ [](nSheetWrite > 0 => nDocInsert = 1 /\ reason # "doc-insert-failure")

\* C11 witness: a run that went through every stage to the end of the script.
C11_Witness ==
    /\ pc = "end"
    /\ nSubmit = 1 /\ nLLM = 1 /\ nDocCreate = 1 /\ nDocInsert = 1 /\ nSheetWrite = 3

\* no cell of the sheet has been written
SheetUntouched == \A n \in DOMAIN cells : cells[n] = BlankCells

\* C12 as claimed: when the run has ended with the keyword task Ready, Failed or TimedOut,
\* the selected row has been updated with the outcome.
C12_AsClaimed ==
    (pc \in {"exit", "crash", "end"} /\ (pc = "end" \/ session \in {"Failed", "TimedOut"}))
        => (row_number \in DOMAIN cells /\ cells[row_number].C # "")

\* the ways a run fails before the sheet update
FailureReasons ==
    { "api-rejected", "invalid-submit-response", "invalid-response", "stuck-unknown",
      "invalid-response-on-final-check", "timeout", "llm-failure", "doc-create-failure",
      "doc-insert-failure" }

\* C13: after a failure of the submitter, the poll engine, the content generator or the
\* publisher no cell of the sheet has been written and no write was tried; a cell is written
\* only in a run whose poll session Succeeded and whose document was created and filled.
C13_SheetUntouchedOnFailure ==
    /\ reason \in FailureReasons => (nSheetWrite = 0 /\ SheetUntouched)
    /\ (nSheetWrite > 0 \/ ~SheetUntouched)
           => /\ session = "Succeeded"
              /\ nLLM = 1 /\ nDocCreate = 1 /\ nDocInsert = 1
              /\ doc_id = "doc1"
              /\ reason \in {"", "sheet-update-failure"}

\* C13 witness: the text insert failed after the document was created; the sheet is as it was.
C13_Witness ==
    /\ reason = "doc-insert-failure"
    /\ nDocCreate = 1
    /\ nSheetWrite = 0
    /\ SheetUntouched

\* a Status cell that is empty or reads "pending" in any case
PendingStatus(st) == st \in {"", "pending", "Pending", "PENDING"}

\* the positions (1-based) of the rows with such a Status
PendingRows == { i \in 1..Len(rows) : PendingStatus(rows[i].Status) }

\* C14 as claimed: selection takes the first row whose Status is empty or "pending" in any
\* case, with its sheet row number (0-based position + 2); the run signals "no work" and
\* submits nothing if and only if there is no such row.
C14_AsClaimed ==
    pc # "select" =>
        IF PendingRows = {}
        THEN reason = "no-keyword" /\ nSubmit = 0
        ELSE LET i == CHOOSE j \in PendingRows : \A k \in PendingRows : j <= k
             IN  /\ row_number = (i - 1) + 2
                 /\ keyword = rows[i].Keyword
                 /\ reason # "no-keyword"

\* C15: the final check is one fetch that ends the session: a response with the success
\* flag and progress 100 makes it Succeeded with the score and content of that response,
\* any other response that parses makes it Failed(stuck-unknown), one that does not parse
\* Failed(invalid-response-on-final-check); there is no sleep, and once the final check
\* has been entered the script never polls, or checks, again.
C15_FinalCheckIsTerminal ==
    /\ [][ pc = "final_check"
            => /\ clock' = clock
               /\ slept' = slept
               /\ task_response' = task_response
               /\ unknown_count' = unknown_count
               /\ IF ~final_response'.json
                  THEN /\ pc' = "exit"
                       /\ session' = "Failed"
                       /\ reason' = "invalid-response-on-final-check"
                  ELSE IF final_response'.status = "SUCCESS" /\ final_response'.value = 100
                  THEN /\ pc' = "generate"
                       /\ session' = "Succeeded"
                       /\ pop_score' = (IF final_response'.pageScore = AbsentNum
                                        THEN NA ELSE final_response'.pageScore)
                       /\ optimized_content' = (IF final_response'.content = Absent
                                                THEN "" ELSE final_response'.content)
                  ELSE /\ pc' = "exit"
                       /\ session' = "Failed"
                       /\ reason' = "stuck-unknown" ]_vars
    /\ [][pc' = "final_check" => pc = "poll"]_vars
    /\ [][pc \notin {"select", "submit", "poll"} => pc' \notin {"poll", "final_check"}]_vars

\* C15 witness: the final check fetched the finished report.
C15_Witness ==
    /\ session = "Succeeded"
    /\ unknown_count = 8
    /\ final_response = Report("SUCCESS", "SUCCESS", 100)
    /\ pop_score = ReportScore
    /\ optimized_content = "brief"

\* the status label of a response, "Unknown" when the key is missing
Label(r) == IF r.msg = Absent THEN "Unknown" ELSE r.msg

\* C16 as claimed: a poll logs its "Task Status" info line only when its label differs from
\* the label of the observation right before it (the first poll has none before it), and a
\* poll whose label differs, and that is not itself an "Unknown"/0%, does log it.
C16_AsClaimed ==
    [][ (MainFetch /\ task_response'.json)
        => LET before == IF nFetch = 0 THEN None ELSE Label(task_response)
               changed == Label(task_response') # before
           IN  /\ logged' => changed
               /\ (changed /\ ~UnknownZero(task_response')) => logged' ]_vars

\* C17: the final check is entered on the 8th "Unknown"/0% response in a row, neither
\* sooner nor later, whether the highest progress is below 50 or not: high progress makes
\* the sleeps 60 instead of 30 and gives no further retries.
C17_SameRetriesAtAnyProgress ==
    /\ [](unkRun <= 8)
    /\ [](pc = "final_check" => unkRun = 8)
    /\ [](unkRun = 8 => pc # "poll")
    /\ [][ (MainFetch /\ UnknownZero(task_response'))
            => IF unkRun = 7
               THEN pc' = "final_check" /\ clock' = clock
               ELSE /\ pc' = "poll"
                    /\ clock' = clock + (IF last_valid_progress >= 50 THEN 60 ELSE 30) ]_vars

\* C17 witness: the final check was entered at high progress, after seven sleeps of 60.
C17_Witness ==
    /\ pc = "final_check"
    /\ last_valid_progress = 80
    /\ unkRun = 8
    /\ clock >= 7 * 60

\* C18: unknown_count stays within 0..8; when it reaches 8 the script goes straight to the
\* final check, which ends the session, and it never sleeps with the counter at 8.
C18_CounterBounded ==
    /\ [](unknown_count \in 0..8)
    /\ [](unknown_count = 8 => pc # "poll")
    /\ [][unknown_count' = 8 /\ unknown_count # 8 => pc' = "final_check"]_vars
    /\ [][unknown_count = 8 => clock' = clock /\ slept' = slept]_vars
    /\ [][pc = "final_check" => (unknown_count = 8 /\ session' \in {"Succeeded", "Failed"})]_vars

\* C18 witness: the counter reached 8 at low progress and the final check failed the session.
C18_Witness ==
    /\ unknown_count = 8
    /\ last_valid_progress = 45
    /\ session = "Failed"
    /\ slept = 0

\* C19: the clock never passes deadline + 60 = 1260: every fetch, the final check's too, is
\* made at a clock of at most 1200, and past 1200 the script can only be at the deadline
\* check or stopped, one sleep (of at most 60) before having been within the deadline.
C19_EndsWithinDeadlinePlus60 ==
    /\ [](clock <= 1260)
    /\ [](pc = "final_check" => clock <= 1200)
    /\ [](clock > 1200 => (pc \in {"poll", "exit"} /\ slept <= 60 /\ clock - slept <= 1200))
    /\ [][ (task_response' # task_response \/ final_response' # final_response)
            => clock <= 1200 ]_vars
    /\ [][clock > 1200 => pc' = "exit" /\ session' = "TimedOut"]_vars

\* C19 witness: a sleep of 60 that began at the deadline; the session timed out at 1260.
C19_Witness == session = "TimedOut" /\ clock = 1260 /\ slept = 60

\* C20 as claimed: when the run has ended, whatever call failed, a selected row whose status
\* cell reads "Ready for review" has the document's URL in its URL cell and the report's
\* score in its score cell, and no other row has been written.
C20_AsClaimed ==
    pc \in {"exit", "crash", "end"} =>
        \A n \in DOMAIN cells :
            IF n = row_number
            THEN cells[n].C = "Ready for review"
                     => (cells[n].D = DocUrl(doc_id) /\ cells[n].E = pop_score)
            ELSE cells[n] = BlankCells

====
